---- MODULE Spec2Model ----
(***************************************************************************)
(* Model of the Mandelbrot renderer: the escape-time evaluator (main.rs),  *)
(* the colour pipeline (colorscheme.rs) and the renderer (renderer.rs).    *)
(*                                                                         *)
(* Numbers.  usize and u8 values are integers.  An f64 is a binary         *)
(* fixed-point number with FracBits fractional bits: the integer v stands  *)
(* for v / ONE.  Products and quotients are truncated to that precision,   *)
(* as the machine rounds to its own; sums, differences, comparisons,       *)
(* x * 0, x * 1 and x / x are exact, as they are in IEEE arithmetic.  NaN  *)
(* is a distinguished value which every comparison answers with FALSE.     *)
(* The glyph index of the ASCII renderers is the exception: its value      *)
(* turns on the last bit of a quotient, so it is computed on significands  *)
(* of MantissaBits bits, rounded to nearest, ties to even.                 *)
(***************************************************************************)
EXTENDS Integers, Sequences, FiniteSets, TLC

\* ------------------------------------------------------------------ bounds
FracBits == 8
MaxIter  == 10
MaxW     == 3
MaxH     == 2
MaxStops == 4
WideWidth == 12
MaxRampIter == 40

\* ------------------------------------------------------------------- f64
ONE == 2 ^ FracBits
NaN == 0 - (2 ^ 30)

IsNaN(x) == x = NaN

\* a float literal n/d, e.g. 0.16 is Lit(16, 100)
Lit(n, d) == (n * ONE) \div d

\* usize as f64
AsF64(n) == n * ONE

Abs(x) == IF x < 0 THEN 0 - x ELSE x

\* a * b
Mul(a, b) == IF IsNaN(a) \/ IsNaN(b) THEN NaN ELSE (a * b) \div ONE

\* a / b; 0/0 is NaN (no caller divides a non-zero value by zero)
Div(a, b) ==
    IF IsNaN(a) \/ IsNaN(b) \/ b = 0 THEN NaN
    ELSE IF b < 0 THEN ((0 - a) * ONE) \div (0 - b)
    ELSE (a * ONE) \div b

\* a % b (fmod: the result has the sign of a), b > 0
FMod(a, b) ==
    IF IsNaN(a) THEN NaN
    ELSE IF a >= 0 THEN a % b
    ELSE 0 - ((0 - a) % b)

\* f64::clamp(lo, hi): NaN stays NaN
Clamp(x, lo, hi) ==
    IF IsNaN(x) THEN NaN
    ELSE IF x < lo THEN lo
    ELSE IF x > hi THEN hi
    ELSE x

\* `as i32` / `as usize`: truncation toward zero, NaN to 0
Trunc(x) ==
    IF IsNaN(x) THEN 0
    ELSE IF x >= 0 THEN x \div ONE
    ELSE 0 - ((0 - x) \div ONE)

\* `as u8`: truncation toward zero, saturating, NaN to 0
AsU8(x) ==
    LET n == Trunc(x)
    IN  IF n < 0 THEN 0 ELSE IF n > 255 THEN 255 ELSE n

RECURSIVE SqrtIter(_, _, _)
\* greatest r with r*r <= n, searched in lo..hi-1 (lo*lo <= n < hi*hi)
SqrtIter(n, lo, hi) ==
    IF hi - lo <= 1 THEN lo
    ELSE LET mid == (lo + hi) \div 2
         IN  IF mid * mid <= n THEN SqrtIter(n, mid, hi)
             ELSE SqrtIter(n, lo, mid)

\* floor of the square root of a non-negative integer below 2^30
Isqrt(n) == SqrtIter(n, 0, 2 ^ 15)

RECURSIVE Log2Norm(_, _)
\* x > 0 scaled into [1, 2): <<mantissa, exponent>>
Log2Norm(x, e) ==
    IF x >= 2 * ONE THEN Log2Norm(x \div 2, e + 1)
    ELSE IF x < ONE THEN Log2Norm(x * 2, e - 1)
    ELSE <<x, e>>

RECURSIVE Log2Frac(_, _, _)
\* the k low fractional bits of log2 of x in [1, 2), by repeated squaring
Log2Frac(x, k, acc) ==
    IF k = 0 THEN acc
    ELSE LET y == (x * x) \div ONE
         IN  IF y >= 2 * ONE
             THEN Log2Frac(y \div 2, k - 1, acc + 2 ^ (k - 1))
             ELSE Log2Frac(y, k - 1, acc)

\* x.ln() / 2.0_f64.ln() for x > 0
Log2(x) ==
    LET n == Log2Norm(x, 0)
    IN  n[2] * ONE + Log2Frac(n[1], FracBits, 0)

\* --------------------------------------------------------------- Color
Color(r, g, b) == [r |-> r, g |-> g, b |-> b]

Black == Color(0, 0, 0)

\* one channel of Color::lerp, t already clamped
LerpChannel(a, b, t) ==
    IF IsNaN(t) THEN 0 ELSE AsU8(AsF64(a) + (b - a) * t)

\* lerp without its clamp of t
lerp_Unclamped(self, other, t) ==
    Color(LerpChannel(self.r, other.r, t),
          LerpChannel(self.g, other.g, t),
          LerpChannel(self.b, other.b, t))

lerp(self, other, t) ==
    LET tc == Clamp(t, 0, ONE)
    IN  Color(LerpChannel(self.r, other.r, tc),
              LerpChannel(self.g, other.g, tc),
              LerpChannel(self.b, other.b, tc))

from_hsv(h0, s0, v0) ==
    LET h  == FMod(h0, 360 * ONE)
        s  == Clamp(s0, 0, ONE)
        v  == Clamp(v0, 0, ONE)
        c  == Mul(v, s)
        hm == FMod(Div(h, 60 * ONE), 2 * ONE)
        x  == IF IsNaN(hm) THEN NaN ELSE Mul(c, ONE - Abs(hm - ONE))
        m  == v - c
        hi == Trunc(h)
        rgb == IF hi >= 0 /\ hi <= 59 THEN <<c, x, 0>>
               ELSE IF hi >= 60 /\ hi <= 119 THEN <<x, c, 0>>
               ELSE IF hi >= 120 /\ hi <= 179 THEN <<0, c, x>>
               ELSE IF hi >= 180 /\ hi <= 239 THEN <<0, x, c>>
               ELSE IF hi >= 240 /\ hi <= 299 THEN <<x, 0, c>>
               ELSE <<c, 0, x>>
        ch(p) == IF IsNaN(p) THEN 0 ELSE AsU8((p + m) * 255)
    IN  Color(ch(rgb[1]), ch(rgb[2]), ch(rgb[3]))

\* ------------------------------------------------------------ Gradient
Stop(p, c) == [pos |-> p, color |-> c]

\* a <= b on f64: FALSE when either side is NaN
Leq(a, b) == ~IsNaN(a) /\ ~IsNaN(b) /\ a <= b

RECURSIVE InsertStopUnstable(_, _)
\* s placed before the stops of the same position: a sort that is not stable
InsertStopUnstable(sorted, s) ==
    IF sorted = <<>> THEN <<s>>
    ELSE IF s.pos <= Head(sorted).pos THEN <<s>> \o sorted
    ELSE <<Head(sorted)>> \o InsertStopUnstable(Tail(sorted), s)

RECURSIVE InsertStop(_, _)
\* s placed behind every stop whose position is not greater (stable)
InsertStop(sorted, s) ==
    IF sorted = <<>> THEN <<s>>
    ELSE IF s.pos < Head(sorted).pos THEN <<s>> \o sorted
    ELSE <<Head(sorted)>> \o InsertStop(Tail(sorted), s)

RECURSIVE SortStops(_)
\* stops.sort_by(|a, b| a.0.partial_cmp(&b.0).unwrap()): a stable sort
SortStops(stops) ==
    IF stops = <<>> THEN <<>>
    ELSE InsertStop(SortStops(SubSeq(stops, 1, Len(stops) - 1)),
                    stops[Len(stops)])

\* Gradient::new: the value of the field `stops`
Gradient_new(stops) == SortStops(stops)

RECURSIVE ScanStopsFromSecond(_, _, _)
\* the scan without its first pair: `for i in 1..self.stops.len() - 1`
ScanStopsFromSecond(stops, t, i) ==
    LET j == IF i = 1 THEN 2 ELSE i
    IN  IF j > Len(stops) - 1 THEN 0
        ELSE IF Leq(stops[j].pos, t) /\ Leq(t, stops[j + 1].pos) THEN j
        ELSE ScanStopsFromSecond(stops, t, j + 1)

RECURSIVE ScanStops(_, _, _)
\* the loop `for i in 0..self.stops.len() - 1`, from pair i on (1-based):
\* the index of the first pair with pos1 <= t <= pos2, 0 when there is none
ScanStops(stops, t, i) ==
    IF i > Len(stops) - 1 THEN 0
    ELSE IF Leq(stops[i].pos, t) /\ Leq(t, stops[i + 1].pos) THEN i
    ELSE ScanStops(stops, t, i + 1)

\* local_t = (t - pos1) / (pos2 - pos1) of the pair the scan selects
LocalT(stops, t, i) == Div(t - stops[i].pos, stops[i + 1].pos - stops[i].pos)

\* get_color with the test against the last stop made before the test
\* against the first
get_color_LastFirst(stops, t0) ==
    LET t == Clamp(t0, 0, ONE)
    IN  IF stops = <<>> THEN Black
        ELSE IF Leq(stops[Len(stops)].pos, t) THEN stops[Len(stops)].color
        ELSE IF Leq(t, stops[1].pos) THEN stops[1].color
        ELSE LET i == ScanStops(stops, t, 1)
             IN  IF i = 0 THEN stops[1].color
                 ELSE lerp(stops[i].color, stops[i + 1].color,
                           LocalT(stops, t, i))

Gradient_get_color(stops, t0) ==
    LET t == Clamp(t0, 0, ONE)
    IN  IF stops = <<>> THEN Black
        ELSE IF Leq(t, stops[1].pos) THEN stops[1].color
        ELSE IF Leq(stops[Len(stops)].pos, t) THEN stops[Len(stops)].color
        ELSE LET i == ScanStops(stops, t, 1)
             IN  IF i = 0 THEN stops[1].color
                 ELSE lerp(stops[i].color, stops[i + 1].color,
                           LocalT(stops, t, i))

\* the pair get_color(t0) interpolates in: its index when the scan is
\* reached and selects one, 0 when the call returns without one
ScanPair(stops, t0) ==
    LET t == Clamp(t0, 0, ONE)
    IN  IF stops = <<>> THEN 0
        ELSE IF Leq(t, stops[1].pos) THEN 0
        ELSE IF Leq(stops[Len(stops)].pos, t) THEN 0
        ELSE ScanStops(stops, t, 1)

\* --------------------------------------------------------- ColorScheme
Schemes == {"Grayscale", "Classic", "Ocean", "Fire", "Psychedelic",
            "Forest", "Sunset"}

\* a ColorScheme value: the variant and, for Custom, its Gradient
Named(tag) == [tag |-> tag, gradient |-> <<>>]
Custom(stops) == [tag |-> "Custom", gradient |-> stops]

ClassicStops ==
    << Stop(Lit(0, 1), Color(0, 7, 100)),
       Stop(Lit(16, 100), Color(32, 107, 203)),
       Stop(Lit(42, 100), Color(237, 255, 255)),
       Stop(Lit(6425, 10000), Color(255, 170, 0)),
       Stop(Lit(8575, 10000), Color(0, 2, 0)),
       Stop(Lit(1, 1), Color(0, 7, 100)) >>

OceanStops ==
    << Stop(Lit(0, 1), Color(0, 0, 128)),
       Stop(Lit(3, 10), Color(0, 128, 255)),
       Stop(Lit(6, 10), Color(64, 224, 208)),
       Stop(Lit(1, 1), Color(240, 255, 255)) >>

FireStops ==
    << Stop(Lit(0, 1), Color(0, 0, 0)),
       Stop(Lit(25, 100), Color(128, 0, 0)),
       Stop(Lit(5, 10), Color(255, 0, 0)),
       Stop(Lit(75, 100), Color(255, 165, 0)),
       Stop(Lit(1, 1), Color(255, 255, 0)) >>

ForestStops ==
    << Stop(Lit(0, 1), Color(0, 20, 0)),
       Stop(Lit(3, 10), Color(34, 139, 34)),
       Stop(Lit(6, 10), Color(144, 238, 144)),
       Stop(Lit(1, 1), Color(240, 255, 240)) >>

SunsetStops ==
    << Stop(Lit(0, 1), Color(25, 25, 112)),
       Stop(Lit(3, 10), Color(255, 69, 0)),
       Stop(Lit(6, 10), Color(255, 140, 0)),
       Stop(Lit(8, 10), Color(255, 215, 0)),
       Stop(Lit(1, 1), Color(255, 250, 205)) >>

\* the `match self` of get_color and get_smooth_color (the same in both)
MatchScheme(self, t) ==
    LET gray == AsU8(IF IsNaN(t) THEN NaN ELSE t * 255)
    IN  CASE self.tag = "Grayscale" -> Color(gray, gray, gray)
          [] self.tag = "Classic" ->
                Gradient_get_color(Gradient_new(ClassicStops), t)
          [] self.tag = "Ocean" ->
                Gradient_get_color(Gradient_new(OceanStops), t)
          [] self.tag = "Fire" ->
                Gradient_get_color(Gradient_new(FireStops), t)
          [] self.tag = "Psychedelic" ->
                from_hsv(IF IsNaN(t) THEN NaN ELSE t * 360 * 3, ONE, ONE)
          [] self.tag = "Forest" ->
                Gradient_get_color(Gradient_new(ForestStops), t)
          [] self.tag = "Sunset" ->
                Gradient_get_color(Gradient_new(SunsetStops), t)
          [] self.tag = "Custom" -> Gradient_get_color(self.gradient, t)

\* get_color with the in-set test written `>` for `>=`
get_color_StrictTest(self, iterations, max_iterations) ==
    IF iterations > max_iterations THEN Black
    ELSE MatchScheme(self, Div(AsF64(iterations), AsF64(max_iterations)))

ColorScheme_get_color(self, iterations, max_iterations) ==
    IF iterations >= max_iterations THEN Black
    ELSE MatchScheme(self, Div(AsF64(iterations), AsF64(max_iterations)))

\* t of get_smooth_color, after its clamp.  z_norm is a magnitude: NaN or
\* a value >= 0.  ln of 0 is -inf and ln of a negative value is NaN, so a
\* magnitude below 1 gives NaN and a magnitude of 1 gives +inf, clamped to 1.
SmoothT(iterations, max_iterations, z_norm) ==
    IF IsNaN(z_norm) \/ z_norm < ONE THEN NaN
    ELSE LET l1 == Log2(z_norm)
         IN  IF l1 = 0 THEN ONE
             ELSE LET smooth_iter == AsF64(iterations) + ONE - Log2(l1)
                  IN  Clamp(Div(smooth_iter, AsF64(max_iterations)), 0, ONE)

ColorScheme_get_smooth_color(self, iterations, max_iterations, z_norm) ==
    IF iterations >= max_iterations THEN Black
    ELSE MatchScheme(self, SmoothT(iterations, max_iterations, z_norm))

\* ------------------------------------------------------------ evaluator
\* z * z + c on num::complex::Complex<f64>
Step(z, c) ==
    << Mul(z[1], z[1]) - Mul(z[2], z[2]) + c[1],
       Mul(z[1], z[2]) + Mul(z[2], z[1]) + c[2] >>

\* Complex::norm: the magnitude |z|
Norm(z) == Isqrt(z[1] * z[1] + z[2] * z[2])

MandelbrotResult(i, n) == [iterations |-> i, z_norm |-> n]

RECURSIVE EscapeLoopStepFirst(_, _, _, _)
\* the loop with the update moved before the escape test
EscapeLoopStepFirst(z, c, i, max_iters) ==
    IF i >= max_iters THEN MandelbrotResult(max_iters, Norm(z))
    ELSE IF Norm(Step(z, c)) > 2 * ONE
         THEN MandelbrotResult(i, Norm(Step(z, c)))
    ELSE EscapeLoopStepFirst(Step(z, c), c, i + 1, max_iters)

RECURSIVE EscapeLoopAtRadius(_, _, _, _)
\* the loop with the escape test written `>=` for `>`
EscapeLoopAtRadius(z, c, i, max_iters) ==
    IF i >= max_iters THEN MandelbrotResult(max_iters, Norm(z))
    ELSE IF Norm(z) >= 2 * ONE THEN MandelbrotResult(i, Norm(z))
    ELSE EscapeLoopAtRadius(Step(z, c), c, i + 1, max_iters)

RECURSIVE EscapeLoop(_, _, _, _)
\* the loop `for i in 0..max_iters` from iteration i on, and the final return
EscapeLoop(z, c, i, max_iters) ==
    IF i >= max_iters THEN MandelbrotResult(max_iters, Norm(z))
    ELSE IF Norm(z) > 2 * ONE THEN MandelbrotResult(i, Norm(z))
    ELSE EscapeLoop(Step(z, c), c, i + 1, max_iters)

mandelbrot_at_point(cx, cy, max_iters) ==
    EscapeLoop(<<0, 0>>, <<cx, cy>>, 0, max_iters)

\* the plane point with y_percent taken over the width
PixelPointOverWidth(b, width, height, img_x, img_y) ==
    LET x_percent == Div(AsF64(img_x), AsF64(width))
        y_percent == Div(AsF64(img_y), AsF64(width))
    IN  << b.x_min + Mul(b.x_max - b.x_min, x_percent),
           b.y_min + Mul(b.y_max - b.y_min, y_percent) >>

\* the plane point of pixel (img_x, img_y): <<cx, cy>>
PixelPoint(b, width, height, img_x, img_y) ==
    LET x_percent == Div(AsF64(img_x), AsF64(width))
        y_percent == Div(AsF64(img_y), AsF64(height))
    IN  << b.x_min + Mul(b.x_max - b.x_min, x_percent),
           b.y_min + Mul(b.y_max - b.y_min, y_percent) >>

\* the pass with the inner loop stopping one pixel short of the row's end
CalcRowShort(max_iters, b, width, height, img_y) ==
    LET res(img_x) ==
            LET c == PixelPoint(b, width, height, img_x, img_y)
            IN  mandelbrot_at_point(c[1], c[2], max_iters)
    IN  [iter_row |-> [x \in 1..(width - 1) |-> res(x - 1).iterations],
         norm_row |-> [x \in 1..(width - 1) |-> res(x - 1).z_norm]]

\* one pass of the loop over img_y: the two rows it pushes
CalcRow(max_iters, b, width, height, img_y) ==
    LET res(img_x) ==
            LET c == PixelPoint(b, width, height, img_x, img_y)
            IN  mandelbrot_at_point(c[1], c[2], max_iters)
    IN  [iter_row |-> [x \in 1..width |-> res(x - 1).iterations],
         norm_row |-> [x \in 1..width |-> res(x - 1).z_norm]]

\* ------------------------------------------------------------- renderer
\* RenderData::width
DataWidth(data) ==
    IF data.iterations = <<>> THEN 0 ELSE Len(data.iterations[1])

\* RenderData::height
DataHeight(data) == Len(data.iterations)

\* rgb_to_ansi256 with the channel multiplied in u8, not widened to u16
rgb_to_ansi256_Narrow(r0, g0, b0) ==
    LET r  == ((r0 * 5) % 256) \div 255
        g  == ((g0 * 5) % 256) \div 255
        b  == ((b0 * 5) % 256) \div 255
    IN  [code |-> (16 + 36 * r + 6 * g + b) % 256,
         overflow |-> \E c \in {r0, g0, b0} : c * 5 > 255]

\* fn rgb_to_ansi256: u16 products for the levels, u8 sums for the index;
\* `overflow` records a u8 intermediate above 255 (a panic in a debug build,
\* a wrapped value in a release build)
rgb_to_ansi256(r0, g0, b0) ==
    LET r  == ((r0 * 5) % 65536) \div 255
        g  == ((g0 * 5) % 65536) \div 255
        b  == ((b0 * 5) % 65536) \div 255
        s1 == 36 * r
        s2 == 16 + (s1 % 256)
        s3 == 6 * g
        s4 == (s2 % 256) + (s3 % 256)
        s5 == (s4 % 256) + (b % 256)
    IN  [code |-> s5 % 256,
         overflow |-> \E s \in {r, g, b, s1, s2, s3, s4, s5} : s > 255]

\* the ramps of render_ascii and render_ascii_extended: chars.len()
RampLen(format) == IF format = "Ascii" THEN 10 ELSE 20

\* ---- the f64 arithmetic of the glyph index, bit for bit.  Whether the
\* truncated product falls on or just below an integer is decided by the
\* last bit of the mantissa, so here an f64 is its IEEE value: `bits`, the
\* MantissaBits bits of the significand (the first is 1), and `exp`, the
\* power of two of the last bit; zero has no bits.  Operations round to
\* nearest, ties to even.
MantissaBits == 53

F64(bits, e) == [bits |-> bits, exp |-> e]

F64Zero == F64(<<>>, 0)

RECURSIVE IncBits(_)
\* bits + 1 on as many bits (all ones wrap to all zeros)
IncBits(bits) ==
    IF bits = <<>> THEN <<>>
    ELSE LET n == Len(bits)
         IN  IF bits[n] = 0 THEN SubSeq(bits, 1, n - 1) \o <<1>>
             ELSE IncBits(SubSeq(bits, 1, n - 1)) \o <<0>>

\* a significand of at least MantissaBits bits, e the power of two of its
\* last bit, sticky telling of a non-zero rest behind it: rounded to
\* MantissaBits bits, to nearest, ties to even
RoundNearestEven(bits, sticky, e) ==
    LET P    == MantissaBits
        L    == Len(bits)
        kept == SubSeq(bits, 1, P)
    IN  IF L = P THEN F64(kept, e)
        ELSE LET rest == sticky \/ \E j \in (P + 2)..L : bits[j] = 1
                 up   == bits[P + 1] = 1 /\ (rest \/ kept[P] = 1)
                 inc  == IncBits(kept)
             IN  IF ~up THEN F64(kept, e + (L - P))
                 ELSE IF inc[1] = 1 THEN F64(inc, e + (L - P))
                 ELSE F64(<<1>> \o SubSeq(inc, 1, P - 1), e + (L - P) + 1)

RECURSIVE NormDiv(_, _, _)
\* a / b = (a' / b') * 2^e with 1 <= a' / b' < 2, for integers a, b > 0
NormDiv(a, b, e) ==
    IF a < b THEN NormDiv(2 * a, b, e - 1)
    ELSE IF a >= 2 * b THEN NormDiv(a, 2 * b, e + 1)
    ELSE <<a, b, e>>

RECURSIVE DivBits(_, _, _, _)
\* long division: the next k bits of r / b for 0 <= r < b, and the remainder
DivBits(r, b, k, acc) ==
    IF k = 0 THEN [bits |-> acc, rem |-> r]
    ELSE LET bit == IF 2 * r >= b THEN 1 ELSE 0
         IN  DivBits(2 * r - bit * b, b, k - 1, Append(acc, bit))

\* (a as f64) / (b as f64) for usize a >= 0 and b > 0 that f64 holds exactly
F64Div(a, b) ==
    IF a = 0 THEN F64Zero
    ELSE LET n == NormDiv(a, b, 0)
             q == DivBits(n[1] - n[2], n[2], MantissaBits, <<1>>)
         IN  RoundNearestEven(q.bits, q.rem # 0, n[3] - MantissaBits)

RECURSIVE BinaryOf(_)
\* the bits of a positive integer, none for 0
BinaryOf(n) == IF n = 0 THEN <<>> ELSE BinaryOf(n \div 2) \o <<n % 2>>

RECURSIVE MulBits(_, _, _, _, _)
\* bits[1..k] * n + carry written before acc: the exact product, computed
\* from the last bit up
MulBits(bits, k, n, carry, acc) ==
    IF k = 0 THEN BinaryOf(carry) \o acc
    ELSE LET d == bits[k] * n + carry
         IN  MulBits(bits, k - 1, n, d \div 2, <<d % 2>> \o acc)

\* x * (n as f64) for a small usize n > 0
F64MulUsize(x, n) ==
    IF x.bits = <<>> THEN F64Zero
    ELSE RoundNearestEven(MulBits(x.bits, Len(x.bits), n, 0, <<>>), FALSE,
                          x.exp)

RECURSIVE ValueOf(_)
\* the integer a bit string writes
ValueOf(bits) ==
    IF bits = <<>> THEN 0
    ELSE 2 * ValueOf(SubSeq(bits, 1, Len(bits) - 1)) + bits[Len(bits)]

\* x as usize for 0 <= x < 2^31: the bits above the binary point
F64AsUsize(x) ==
    IF x.bits = <<>> \/ MantissaBits + x.exp <= 0 THEN 0
    ELSE ValueOf(SubSeq(x.bits, 1, MantissaBits + x.exp))

\* the glyph index without the test for in-set pixels
AsciiGlyph_NoInSetTest(format, iters, max_iterations) ==
    LET n   == RampLen(format)
        idx == F64AsUsize(F64MulUsize(F64Div(iters, max_iterations), n - 1))
    IN  IF idx < n - 1 THEN idx ELSE n - 1

\* the index into `chars` of the glyph pushed for a pixel (' ' is chars[0])
AsciiGlyph(format, iters, max_iterations) ==
    LET n == RampLen(format)
    IN  IF iters >= max_iterations THEN 0
        ELSE LET idx == F64AsUsize(F64MulUsize(F64Div(iters, max_iterations),
                                               n - 1))
             IN  IF idx < n - 1 THEN idx ELSE n - 1

\* the colour a Renderer resolves for pixel (x, y), both 0-based
PixelColor(r, data, x, y) ==
    LET iters  == data.iterations[y + 1][x + 1]
        z_norm == data.z_norms[y + 1][x + 1]
    IN  IF r.use_smooth_coloring
        THEN ColorScheme_get_smooth_color(r.color_scheme, iters,
                                          data.max_iterations, z_norm)
        ELSE ColorScheme_get_color(r.color_scheme, iters, data.max_iterations)

\* what render_to_terminal paints for pixel (x, y): a glyph index, an ANSI
\* palette code or a colour
RenderCell(r, data, x, y) ==
    CASE r.output_format \in {"Ascii", "AsciiExtended"} ->
            AsciiGlyph(r.output_format, data.iterations[y + 1][x + 1],
                       data.max_iterations)
      [] r.output_format = "Ansi256" ->
            LET c == PixelColor(r, data, x, y)
            IN  rgb_to_ansi256(c.r, c.g, c.b).code
      [] r.output_format = "AnsiTrueColor" -> PixelColor(r, data, x, y)

\* Renderer::render_to_terminal: the lines printed, top to bottom
render_to_terminal(r, data) ==
    [y \in 1..DataHeight(data) |->
        [x \in 1..DataWidth(data) |-> RenderCell(r, data, x - 1, y - 1)]]

RECURSIVE Decimal(_)
\* `{}` of a usize: its decimal digits as bytes
Decimal(n) ==
    IF n < 10 THEN <<48 + n>>
    ELSE Decimal(n \div 10) \o <<48 + (n % 10)>>

\* the header with the height written before the width
PpmHeaderHeightFirst(data) ==
    <<80, 54, 10>>
    \o Decimal(DataHeight(data)) \o <<32>> \o Decimal(DataWidth(data)) \o <<10>>
    \o <<50, 53, 53, 10>>

\* the three writeln! of save_as_ppm: "P6\n", "{w} {h}\n", "255\n"
PpmHeader(data) ==
    <<80, 54, 10>>
    \o Decimal(DataWidth(data)) \o <<32>> \o Decimal(DataHeight(data)) \o <<10>>
    \o <<50, 53, 53, 10>>

RECURSIVE WritePixels(_, _, _, _, _)
\* the loops over y and x of save_as_ppm from pixel (x, y) on, appending to out
WritePixels(r, data, y, x, out) ==
    IF y >= DataHeight(data) THEN out
    ELSE IF x >= DataWidth(data) THEN WritePixels(r, data, y + 1, 0, out)
    ELSE LET color == PixelColor(r, data, x, y)
         IN  WritePixels(r, data, y, x + 1,
                         out \o <<color.r, color.g, color.b>>)

\* the bytes of the file after a save_as_ppm that returns Ok
save_as_ppm(r, data) == WritePixels(r, data, 0, 0, PpmHeader(data))

\* ================================================================ state
VARIABLES
    pc,          \* where the program is
    args,        \* main: width, height, iterations and the plane rectangle
    img_y,       \* calculate_mandelbrot: the row being computed
    iterations,  \* calculate_mandelbrot: the iteration grid
    z_norms,     \* calculate_mandelbrot: the magnitude grid
    renderer,    \* the Renderer: color_scheme, output_format, use_smooth_coloring
    screen,      \* what render_to_terminal printed
    file,        \* the bytes of the PPM file
    io,          \* the result of save_as_ppm: "none", "Ok" or "Err"
    stops,       \* the field `stops` of the Gradient under construction
    call         \* the last library call: its function, arguments and result

vars == <<pc, args, img_y, iterations, z_norms, renderer, screen, file, io,
          stops, call>>

\* ---------------------------------------------------------------- inputs
Bounds(x0, x1, y0, y1) ==
    [x_min |-> x0, x_max |-> x1, y_min |-> y0, y_max |-> y1]

\* get_preset_coords("default"), and a rectangle of no height
Regions == { Bounds(0 - 2 * ONE, ONE, 0 - ONE, ONE),
             Bounds(0 - 2 * ONE, ONE, 0 - ONE, 0 - ONE) }

Budgets == 0..MaxIter

\* grid widths: the narrow ones and one of two decimal digits
Widths == 0..MaxW \cup {WideWidth}

Formats == {"Ascii", "AsciiExtended", "Ansi256", "AnsiTrueColor"}

\* plane coordinates: the halves between -3 and 3
Coords == { k * (ONE \div 2) : k \in (0 - 6)..6 }

\* values of t: NaN and the quarters between -1/2 and 3/2
TValues == {NaN} \cup { k * (ONE \div 4) : k \in (0 - 2)..6 }

\* magnitudes: NaN, 0, 1/2, 1, 3/2, 2, just above 2, 3, 5
ZNorms == {NaN, 0, ONE \div 2, ONE, 3 * (ONE \div 2), 2 * ONE, 2 * ONE + 1,
           3 * ONE, 5 * ONE}

\* u8 channel values: those around the six quantisation levels, and mid-grey
Channels == { n \in 0..255 : n % 51 \in {0, 1, 50} } \cup {127, 128}

\* (r, g, b) arguments: the channel values above in every combination, and
\* every value of one channel against the extremes of the other two
RgbInputs ==
    (Channels \X Channels \X Channels)
    \cup { <<n, e[1], e[2]>> : n \in 0..255, e \in {0, 255} \X {0, 255} }
    \cup { <<e[1], n, e[2]>> : n \in 0..255, e \in {0, 255} \X {0, 255} }
    \cup { <<e[1], e[2], n>> : n \in 0..255, e \in {0, 255} \X {0, 255} }

SampleColors ==
    { Color(0, 0, 0), Color(255, 255, 255), Color(255, 0, 0),
      Color(0, 7, 100), Color(32, 107, 203), Color(1, 254, 128) }

\* the colour of the k-th stop handed to Gradient::new: all distinct
StopColor(k) == Color(10 + 40 * k, 250 - 30 * k, 7 * k)

StopPositions == {0, ONE \div 2, ONE}

\* the stop lists of length n handed to Gradient::new, in any order
StopLists(n) ==
    { [k \in 1..n |-> Stop(p[k], StopColor(k))] : p \in [1..n -> StopPositions] }

\* ----------------------------------------------------------------- Init
Init ==
    /\ pc = "idle"
    /\ args = [width |-> 0, height |-> 0, iterations |-> 0,
               bounds |-> Bounds(0, 0, 0, 0)]
    /\ img_y = 0
    /\ iterations = <<>>
    /\ z_norms = <<>>
    /\ renderer = [color_scheme |-> Named("Classic"), output_format |-> "Ascii",
                   use_smooth_coloring |-> TRUE]
    /\ screen = <<>>
    /\ file = <<>>
    /\ io = "none"
    /\ stops = <<>>
    /\ call = [fn |-> "none"]

\* RenderData::new(iterations, z_norms, args.iterations)
RenderData ==
    [iterations |-> iterations, z_norms |-> z_norms,
     max_iterations |-> args.iterations]

\* ------------------------------------------------------- main's pipeline
\* main parses its arguments and enters calculate_mandelbrot
MainStart ==
    /\ pc = "idle"
    /\ \E w \in Widths, h \in 0..MaxH, m \in Budgets, b \in Regions :
          args' = [width |-> w, height |-> h, iterations |-> m, bounds |-> b]
    /\ pc' = "calc"
    /\ img_y' = 0
    /\ iterations' = <<>>
    /\ z_norms' = <<>>
    /\ UNCHANGED <<renderer, screen, file, io, stops, call>>

\* one pass of `for img_y in 0..height`
CalcRowStep ==
    /\ pc = "calc"
    /\ img_y < args.height
    /\ LET row == CalcRow(args.iterations, args.bounds, args.width,
                          args.height, img_y)
       IN  /\ iterations' = Append(iterations, row.iter_row)
           /\ z_norms' = Append(z_norms, row.norm_row)
    /\ img_y' = img_y + 1
    /\ UNCHANGED <<pc, args, renderer, screen, file, io, stops, call>>

\* calculate_mandelbrot returns (iterations, z_norms)
CalcReturn ==
    /\ pc = "calc"
    /\ img_y >= args.height
    /\ pc' = "calculated"
    /\ UNCHANGED <<args, img_y, iterations, z_norms, renderer, screen, file,
                   io, stops, call>>

\* Renderer::new(..).with_smooth_coloring(..), then render_to_terminal
Render ==
    /\ pc = "calculated"
    /\ \E s \in Schemes, f \in Formats, smooth \in BOOLEAN :
          LET r == [color_scheme |-> Named(s), output_format |-> f,
                    use_smooth_coloring |-> smooth]
          IN  /\ renderer' = r
              /\ screen' = render_to_terminal(r, RenderData)
    /\ pc' = "rendered"
    /\ UNCHANGED <<args, img_y, iterations, z_norms, file, io, stops, call>>

\* args.save is Some and save_as_ppm returns Ok
SaveOk ==
    /\ pc = "rendered"
    /\ file' = save_as_ppm(renderer, RenderData)
    /\ io' = "Ok"
    /\ pc' = "done"
    /\ UNCHANGED <<args, img_y, iterations, z_norms, renderer, screen, stops,
                   call>>

\* args.save is Some and File::create fails: nothing is written
SaveErr ==
    /\ pc = "rendered"
    /\ io' = "Err"
    /\ pc' = "done"
    /\ UNCHANGED <<args, img_y, iterations, z_norms, renderer, screen, file,
                   stops, call>>

\* args.save is None
NoSave ==
    /\ pc = "rendered"
    /\ pc' = "done"
    /\ UNCHANGED <<args, img_y, iterations, z_norms, renderer, screen, file,
                   io, stops, call>>

\* --------------------------------------------------------- library calls
Returned(c) ==
    /\ call' = c
    /\ pc' = "ret"
    /\ UNCHANGED <<args, img_y, iterations, z_norms, renderer, screen, file,
                   io, stops>>

CallLerp ==
    /\ pc = "idle"
    /\ \E a \in SampleColors, b \in SampleColors, t \in TValues :
          Returned([fn |-> "lerp", self |-> a, other |-> b, t |-> t,
                    ret |-> lerp(a, b, t)])

\* Gradient::new(input)
NewGradient ==
    /\ pc = "idle"
    /\ \E n \in 0..MaxStops : \E input \in StopLists(n) :
          /\ stops' = Gradient_new(input)
          /\ call' = [fn |-> "Gradient::new", input |-> input]
    /\ pc' = "gradient"
    /\ UNCHANGED <<args, img_y, iterations, z_norms, renderer, screen, file,
                   io>>

\* self.get_color(t) on the Gradient built
GradientGetColor ==
    /\ pc = "gradient"
    /\ \E t \in TValues :
          Returned([fn |-> "Gradient::get_color", input |-> call.input,
                    t |-> t, ret |-> Gradient_get_color(stops, t)])

\* the ColorScheme values: the seven named ones and Custom gradients
SchemeValues ==
    { Named(s) : s \in Schemes }
    \cup { Custom(Gradient_new(g)) :
              g \in UNION { StopLists(n) : n \in 0..(MaxStops - 2) } }

CallGetColor ==
    /\ pc = "idle"
    /\ \E s \in SchemeValues, m \in Budgets : \E i \in 0..(m + 1) :
          Returned([fn |-> "ColorScheme::get_color", self |-> s,
                    iterations |-> i, max_iterations |-> m,
                    ret |-> ColorScheme_get_color(s, i, m)])

CallGetSmoothColor ==
    /\ pc = "idle"
    /\ \E s \in SchemeValues, m \in Budgets, z \in ZNorms : \E i \in 0..(m + 1) :
          Returned([fn |-> "ColorScheme::get_smooth_color", self |-> s,
                    iterations |-> i, max_iterations |-> m, z_norm |-> z,
                    ret |-> ColorScheme_get_smooth_color(s, i, m, z)])

CallRgbToAnsi256 ==
    /\ pc = "idle"
    /\ \E i \in RgbInputs :
          Returned([fn |-> "rgb_to_ansi256", r |-> i[1], g |-> i[2], b |-> i[3],
                    ret |-> rgb_to_ansi256(i[1], i[2], i[3])])

CallMandelbrotAtPoint ==
    /\ pc = "idle"
    /\ \E cx \in Coords, cy \in Coords, m \in Budgets :
          Returned([fn |-> "mandelbrot_at_point", cx |-> cx, cy |-> cy,
                    max_iters |-> m, ret |-> mandelbrot_at_point(cx, cy, m)])

\* render_to_terminal of an ASCII Renderer on a RenderData of one pixel
CallRenderAscii ==
    /\ pc = "idle"
    /\ \E f \in {"Ascii", "AsciiExtended"}, m \in 1..MaxRampIter :
          \E i \in 0..m :
             LET r    == [color_scheme |-> Named("Classic"), output_format |-> f,
                          use_smooth_coloring |-> TRUE]
                 data == [iterations |-> << <<i>> >>, z_norms |-> << <<0>> >>,
                          max_iterations |-> m]
             IN  Returned([fn |-> "render_to_terminal", format |-> f,
                           iterations |-> i, max_iterations |-> m,
                           ret |-> render_to_terminal(r, data)])

Next ==
    \/ MainStart
    \/ CalcRowStep
    \/ CalcReturn
    \/ Render
    \/ SaveOk
    \/ SaveErr
    \/ NoSave
    \/ CallLerp
    \/ NewGradient
    \/ GradientGetColor
    \/ CallGetColor
    \/ CallGetSmoothColor
    \/ CallRgbToAnsi256
    \/ CallMandelbrotAtPoint
    \/ CallRenderAscii

Spec == Init /\ [][Next]_vars

\* =============================================================== claims
IsCall(f) == pc = "ret" /\ call.fn = f

\* calculate_mandelbrot has returned
Calculated == pc \in {"calculated", "rendered", "done"}

\* C1: whenever iterations >= max_iterations, get_color and get_smooth_color
\* return black (0,0,0), for every scheme, every budget >= 0 and every z_norm.
C1_InSetIsBlack ==
    /\ IsCall("ColorScheme::get_color") /\ call.iterations >= call.max_iterations
          => call.ret = Color(0, 0, 0)
    /\ IsCall("ColorScheme::get_smooth_color")
          /\ call.iterations >= call.max_iterations
          => call.ret = Color(0, 0, 0)

\* C1 witness: a Custom gradient whose colours are not black, asked for a
\* count equal to a positive budget
C1_Witness ==
    /\ IsCall("ColorScheme::get_color")
    /\ call.self.tag = "Custom"
    /\ Len(call.self.gradient) = 2
    /\ call.max_iterations = 3
    /\ call.iterations = call.max_iterations
    /\ call.ret = Color(0, 0, 0)

\* C2 as stated: for c = 3+0i and every budget >= 1, mandelbrot_at_point
\* returns iterations = 0 and z_norm = 3.
C2_Original ==
    IsCall("mandelbrot_at_point") /\ call.cx = 3 * ONE /\ call.cy = 0
        /\ call.max_iters >= 1
        => call.ret.iterations = 0 /\ call.ret.z_norm = 3 * ONE

\* C2 amended: for c = 3+0i and every budget >= 1, mandelbrot_at_point
\* returns iterations = 1 and z_norm = 3 (z_0 = 0 is tested first; z_1 = 3).
C2_EscapesAtOne ==
    IsCall("mandelbrot_at_point") /\ call.cx = 3 * ONE /\ call.cy = 0
        /\ call.max_iters >= 1
        => call.ret.iterations = 1 /\ call.ret.z_norm = 3 * ONE

\* C2 witness: c = 3+0i evaluated with a budget the escape does not exhaust
C2_Witness ==
    /\ IsCall("mandelbrot_at_point")
    /\ call.cx = 3 * ONE /\ call.cy = 0 /\ call.max_iters = MaxIter
    /\ call.ret.iterations = 1

\* C3: calculate_mandelbrot returns two grids of exactly H rows of exactly W
\* entries each, for every W >= 0 and H >= 0.
C3_GridShape ==
    Calculated =>
        /\ Len(iterations) = args.height
        /\ Len(z_norms) = args.height
        /\ \A y \in 1..args.height :
              /\ DOMAIN iterations[y] = 1..args.width
              /\ DOMAIN z_norms[y] = 1..args.width

\* C3 witness: a grid of more than one row and more than one column returned
C3_Witness ==
    /\ pc = "calculated"
    /\ args.width = MaxW /\ args.height = MaxH
    /\ Len(iterations) = MaxH /\ Len(iterations[MaxH]) = MaxW

RECURSIVE Orbit(_, _)
\* z_k of the recurrence z_0 = 0, z_{k+1} = z_k^2 + c
Orbit(c, k) == IF k = 0 THEN <<0, 0>> ELSE Step(Orbit(c, k - 1), c)

RECURSIVE LeastEscape(_, _, _)
\* the least index in i..max-1 at which |z| > 2, max when there is none
LeastEscape(c, i, max) ==
    IF i >= max THEN max
    ELSE IF Norm(Orbit(c, i)) > 2 * ONE THEN i
    ELSE LeastEscape(c, i + 1, max)

\* C10: mandelbrot_at_point returns (i, |z_i|) for the least i < max_iterations
\* with |z_i| > 2, and (max_iterations, |z_max_iterations|) when there is none;
\* so 0 <= iterations <= max_iterations, iterations < max_iterations implies
\* z_norm > 2, and c = 0 yields iterations = max_iterations.
C10_LeastEscapeIndex ==
    IsCall("mandelbrot_at_point") =>
        LET c == <<call.cx, call.cy>>
            k == LeastEscape(c, 0, call.max_iters)
        IN  /\ call.ret.iterations = k
            /\ call.ret.z_norm = Norm(Orbit(c, k))
            /\ 0 <= call.ret.iterations
            /\ call.ret.iterations <= call.max_iters
            /\ call.ret.iterations < call.max_iters
                  => call.ret.z_norm > 2 * ONE
            /\ call.cx = 0 /\ call.cy = 0
                  => call.ret.iterations = call.max_iters

\* C10 witness: an escape after several updates, inside the budget
C10_Witness ==
    /\ IsCall("mandelbrot_at_point")
    /\ call.ret.iterations >= 3
    /\ call.ret.iterations < call.max_iters
    /\ call.ret.z_norm > 2 * ONE

\* the Gradient built by Gradient::new is there to be asked
HasGradient == pc = "gradient" \/ IsCall("Gradient::get_color")

\* C4 as stated: for a non-empty gradient with positions in [0,1],
\* get_color(0) is the first sorted stop's colour and get_color(1) the last
\* sorted stop's colour.
C4_Original ==
    IsCall("Gradient::get_color") /\ stops # <<>> =>
        /\ call.t = 0 => call.ret = stops[1].color
        /\ call.t = ONE => call.ret = stops[Len(stops)].color

\* C4 amended: get_color(0) is the first sorted stop's colour; get_color(1)
\* is the last sorted stop's colour unless the first stop's position is 1
\* too (every stop at 1), and then it is the first sorted stop's colour.
C4_Endpoints ==
    IsCall("Gradient::get_color") /\ stops # <<>> =>
        /\ call.t = 0 => call.ret = stops[1].color
        /\ call.t = ONE =>
              call.ret = IF stops[1].pos = ONE THEN stops[1].color
                         ELSE stops[Len(stops)].color

\* C4 witness: get_color(1) on several stops that all sit at position 1
C4_Witness ==
    /\ IsCall("Gradient::get_color")
    /\ Len(stops) >= 2
    /\ stops[1].pos = ONE
    /\ call.t = ONE
    /\ call.ret = stops[1].color
    /\ call.ret # stops[Len(stops)].color

\* the stop list is in ascending order of position
Ascending == \A i \in 1..(Len(stops) - 1) : stops[i].pos <= stops[i + 1].pos

\* the stop list holds the stops of the input, those of one position in
\* their input order
StableSortOfInput ==
    /\ Len(stops) = Len(call.input)
    /\ \A k \in 1..Len(call.input) : \E i \in 1..Len(stops) :
          stops[i] = call.input[k]
    /\ \A i, j \in 1..Len(stops) :
          i < j /\ stops[i].pos = stops[j].pos =>
             \E k, l \in 1..Len(call.input) :
                k < l /\ call.input[k] = stops[i] /\ call.input[l] = stops[j]

\* the indexes of the sorted stops that sit at position p
StopsAt(p) == { i \in 1..Len(stops) : stops[i].pos = p }

\* the first of the sorted stops that sit at position p
FirstAt(p) == CHOOSE i \in StopsAt(p) : \A j \in StopsAt(p) : i <= j

\* C7 as stated: when two or more stops share the position p and t = p,
\* get_color(t) is the colour of the first of them in the sorted list; and
\* the list is ascending after construction whatever the input order.
C7_Original ==
    /\ HasGradient => Ascending /\ StableSortOfInput
    /\ IsCall("Gradient::get_color") /\ Cardinality(StopsAt(call.t)) >= 2
          => call.ret = stops[FirstAt(call.t)].color

\* C7 amended: when two or more stops share the position p and t = p,
\* get_color(t) is the colour of the first of them in the sorted list,
\* except when p is the last stop's position and the first stop's position
\* is smaller: then it is the colour of the last stop of the list.  The list
\* is ascending after construction whatever the input order.
C7_TieBreak ==
    /\ HasGradient => Ascending /\ StableSortOfInput
    /\ IsCall("Gradient::get_color") /\ Cardinality(StopsAt(call.t)) >= 2
          => call.ret =
                IF stops[Len(stops)].pos = call.t /\ stops[1].pos < call.t
                THEN stops[Len(stops)].color
                ELSE stops[FirstAt(call.t)].color

\* C7 witness: two stops that share an interior position, given out of
\* order, asked at that position: the scan answers with the first of them
C7_Witness ==
    /\ IsCall("Gradient::get_color")
    /\ Len(stops) = 4
    /\ call.input[1].pos = ONE
    /\ stops[1].pos = 0
    /\ stops[2].pos = ONE \div 2 /\ stops[3].pos = ONE \div 2
    /\ stops[4].pos = ONE
    /\ call.t = ONE \div 2
    /\ call.ret = stops[2].color

\* C9: lerp(a, b, 0.0) = a and lerp(a, b, 1.0) = b channel for channel; a t
\* below 0 behaves as 0 and a t above 1 as 1.
C9_LerpEndpoints ==
    IsCall("lerp") /\ ~IsNaN(call.t) =>
        /\ call.t <= 0 => call.ret = call.self
        /\ call.t >= ONE => call.ret = call.other

\* C9 witness: two colours that differ in every channel, blended at t > 1
C9_Witness ==
    /\ IsCall("lerp")
    /\ call.t > ONE
    /\ call.self = Color(0, 7, 100) /\ call.other = Color(255, 255, 255)
    /\ call.ret = call.other

\* 16 + 36*(r*5 div 255) + 6*(g*5 div 255) + (b*5 div 255)
CubeIndex(r, g, b) ==
    16 + 36 * ((r * 5) \div 255) + 6 * ((g * 5) \div 255) + ((b * 5) \div 255)

\* C6: rgb_to_ansi256(r,g,b) = 16 + 36*(r*5 div 255) + 6*(g*5 div 255)
\* + (b*5 div 255), which lies in 16..231, so no u8 step overflows; (0,0,0)
\* maps to 16, (255,255,255) to 231 and (255,0,0) to 196.
C6_CubeIndex ==
    IsCall("rgb_to_ansi256") =>
        /\ call.ret.code = CubeIndex(call.r, call.g, call.b)
        /\ call.ret.code \in 16..231
        /\ ~call.ret.overflow
        /\ call.r = 0 /\ call.g = 0 /\ call.b = 0 => call.ret.code = 16
        /\ call.r = 255 /\ call.g = 255 /\ call.b = 255 => call.ret.code = 231
        /\ call.r = 255 /\ call.g = 0 /\ call.b = 0 => call.ret.code = 196

\* C6 witness: the largest index, where the u8 sums come closest to 255
C6_Witness ==
    /\ IsCall("rgb_to_ansi256")
    /\ call.r = 255 /\ call.g = 255 /\ call.b = 255
    /\ call.ret.code = 231

\* the decimal digits of n < 1000 as ASCII bytes
Digits(n) ==
    IF n < 10 THEN <<48 + n>>
    ELSE IF n < 100 THEN <<48 + (n \div 10), 48 + (n % 10)>>
    ELSE <<48 + (n \div 100), 48 + ((n \div 10) % 10), 48 + (n % 10)>>

\* the bytes of "P6\n{w} {h}\n255\n"
HeaderBytes(w, h) ==
    <<80, 54, 10>> \o Digits(w) \o <<32>> \o Digits(h) \o <<10>>
    \o <<50, 53, 53, 10>>

\* the colour the renderer's scheme resolves for the grid cell of pixel (x, y)
SchemeColorAt(x, y) ==
    IF renderer.use_smooth_coloring
    THEN ColorScheme_get_smooth_color(renderer.color_scheme,
                                      iterations[y + 1][x + 1],
                                      args.iterations, z_norms[y + 1][x + 1])
    ELSE ColorScheme_get_color(renderer.color_scheme,
                               iterations[y + 1][x + 1], args.iterations)

\* C5: for W >= 1 and H >= 1 a successful save_as_ppm writes exactly the
\* header "P6\n{W} {H}\n255\n" followed by exactly 3*W*H bytes: the (r,g,b)
\* of each pixel's resolved colour, rows top to bottom, pixels left to right.
C5_PpmBytes ==
    pc = "done" /\ io = "Ok" /\ args.width >= 1 /\ args.height >= 1 =>
        LET W   == args.width
            H   == args.height
            hdr == HeaderBytes(W, H)
        IN  /\ Len(file) = Len(hdr) + 3 * W * H
            /\ SubSeq(file, 1, Len(hdr)) = hdr
            /\ \A y \in 0..(H - 1), x \in 0..(W - 1) :
                  LET k == Len(hdr) + 3 * (y * W + x)
                      c == SchemeColorAt(x, y)
                  IN  /\ file[k + 1] = c.r
                      /\ file[k + 2] = c.g
                      /\ file[k + 3] = c.b

\* C5 witness: a file saved from a grid of two rows whose width has two
\* digits, in which the pixels are not all of one colour
C5_Witness ==
    /\ pc = "done" /\ io = "Ok"
    /\ args.width = WideWidth /\ args.height = MaxH
    /\ Len(file) = Len(HeaderBytes(WideWidth, MaxH)) + 3 * WideWidth * MaxH
    /\ \E i, j \in 1..Len(file) : i > 11 /\ j > 11 /\ file[i] # file[j]

\* the plane point the claim gives for pixel (x, y) of the grid asked for
ClaimedPoint(x, y) ==
    LET b == args.bounds
    IN  << b.x_min + Mul(b.x_max - b.x_min,
                         Div(AsF64(x), AsF64(args.width))),
           b.y_min + Mul(b.y_max - b.y_min,
                         Div(AsF64(y), AsF64(args.height))) >>

\* C8: cell [y][x] of the grids holds the escape-time evaluation at
\* c = (x_min + (x_max-x_min)*x/W) + i*(y_min + (y_max-y_min)*y/H); for W=2,
\* H=1, x in [-2,1], y in [-1,-1] and a budget of 10 the points are -2-1i and
\* -0.5-1i and the counts are those of simulating z <- z^2 + c from z = 0.
C8_PixelMapping ==
    Calculated =>
        /\ \A y \in 0..(args.height - 1), x \in 0..(args.width - 1) :
              LET c == ClaimedPoint(x, y)
                  k == LeastEscape(c, 0, args.iterations)
              IN  /\ iterations[y + 1][x + 1] = k
                  /\ z_norms[y + 1][x + 1] = Norm(Orbit(c, k))
        /\ args = [width |-> 2, height |-> 1, iterations |-> 10,
                   bounds |-> Bounds(0 - 2 * ONE, ONE, 0 - ONE, 0 - ONE)]
              => /\ ClaimedPoint(0, 0) = <<0 - 2 * ONE, 0 - ONE>>
                 /\ ClaimedPoint(1, 0) = <<0 - (ONE \div 2), 0 - ONE>>
                 /\ iterations = <<<<1, 4>>>>

\* C8 witness: the grid of the scenario W=2, H=1, y in [-1,-1], budget 10
C8_Witness ==
    /\ pc = "calculated"
    /\ args = [width |-> 2, height |-> 1, iterations |-> 10,
               bounds |-> Bounds(0 - 2 * ONE, ONE, 0 - ONE, 0 - ONE)]
    /\ iterations = <<<<1, 4>>>>

\* the glyph index the ramp of n glyphs gives a pixel by the rule claimed
ClaimedGlyph(n, iters, max_iterations) ==
    IF iters >= max_iterations THEN 0
    ELSE (iters * (n - 1)) \div max_iterations

\* C11: for both character ramps (N = 10 and N = 20), every max_iterations
\* >= 1 and every iteration count in 0..=max_iterations, a pixel with
\* iterations >= max_iterations is rendered as the space glyph (index 0) and
\* never as the densest glyph (index N-1), and a pixel with iterations <
\* max_iterations is rendered as the glyph at index
\* floor(iterations * (N-1) / max_iterations), which is at most N-1.  Stated
\* of the one-pixel calls and of every pixel main's pipeline prints.
C11_GlyphIndex ==
    /\ IsCall("render_to_terminal") =>
          LET n     == RampLen(call.format)
              glyph == call.ret[1][1]
          IN  /\ call.iterations >= call.max_iterations
                    => glyph = 0 /\ glyph # n - 1
              /\ call.iterations < call.max_iterations
                    => /\ glyph = (call.iterations * (n - 1))
                                     \div call.max_iterations
                       /\ glyph <= n - 1
    /\ pc \in {"rendered", "done"}
          /\ renderer.output_format \in {"Ascii", "AsciiExtended"} =>
          \A y \in 1..Len(screen) : \A x \in 1..Len(screen[y]) :
             /\ screen[y][x] = ClaimedGlyph(RampLen(renderer.output_format),
                                            iterations[y][x], args.iterations)
             /\ screen[y][x] <= RampLen(renderer.output_format) - 1

\* 7 of 19 iterations on the ramp of 20: the rounded quotient times 19 is 7
C11_Witness ==
    /\ IsCall("render_to_terminal")
    /\ call.format = "AsciiExtended"
    /\ call.iterations = 7
    /\ call.max_iterations = 19
    /\ call.ret = << <<7>> >>

\* two adjacent stops of the sorted list s share a position
Coincident(s) == \E k \in 1..(Len(s) - 1) : s[k].pos = s[k + 1].pos

\* C12 as stated: there is a gradient with coincident adjacent stops and a t
\* in [0,1] for which the scan of get_color selects a pair (pos1, pos2) with
\* pos2 - pos1 = 0 and divides by it.
C12_Original ==
    \E n \in 0..MaxStops : \E input \in StopLists(n) : \E t \in TValues :
       LET s == Gradient_new(input)
           i == ScanPair(s, t)
       IN  /\ ~IsNaN(t) /\ 0 <= t /\ t <= ONE
           /\ Coincident(s)
           /\ i # 0
           /\ s[i + 1].pos - s[i].pos = 0

\* C12 amended: the scan of get_color never divides by zero.  Every pair it
\* selects has pos2 - pos1 > 0, local_t is a number in [0,1] and the call
\* returns the lerp of the pair at local_t; when t is a position that
\* adjacent stops share, the pair selected is the one that ends at t, local_t
\* is 1 and the call returns color2 of that pair.
C12_ScanDivisorPositive ==
    IsCall("Gradient::get_color") =>
       LET i == ScanPair(stops, call.t)
           t == Clamp(call.t, 0, ONE)
       IN  i # 0 =>
             /\ stops[i + 1].pos - stops[i].pos > 0
             /\ ~IsNaN(LocalT(stops, t, i))
             /\ 0 <= LocalT(stops, t, i) /\ LocalT(stops, t, i) <= ONE
             /\ call.ret = lerp(stops[i].color, stops[i + 1].color,
                                LocalT(stops, t, i))
             /\ (\E k \in 1..(Len(stops) - 1) :
                    stops[k].pos = t /\ stops[k + 1].pos = t)
                   => /\ stops[i + 1].pos = t
                      /\ LocalT(stops, t, i) = ONE
                      /\ call.ret = stops[i + 1].color

\* C12 witness: stops at 0, 1/2, 1/2 and 1, and t = 1/2: the scan selects the
\* pair (0, 1/2) and the call returns the colour of the first stop at 1/2
C12_Witness ==
    /\ IsCall("Gradient::get_color")
    /\ Len(stops) = 4
    /\ stops[2].pos = ONE \div 2
    /\ stops[3].pos = ONE \div 2
    /\ call.t = ONE \div 2
    /\ ScanPair(stops, call.t) = 1
    /\ LocalT(stops, call.t, 1) = ONE
    /\ call.ret = stops[2].color

====
